---- MODULE Spec2Model ----
(***************************************************************************)
(* Chart maker: the editor page (src/app/page.tsx) and the game search     *)
(* proxy with its process-wide token cache (src/app/api/search/.../route). *)
(*                                                                         *)
(* JavaScript values are modelled as follows.  A string is a TLA+ string.  *)
(* A value that may be null/undefined is a sequence of length 0 (null) or  *)
(* 1 (the value).  An event handler runs to completion on the state of the *)
(* latest render; the continuation of an asynchronous call (fetch,         *)
(* FileReader) is a separate step that sees the variables its closure      *)
(* captured when the call was started.                                     *)
(***************************************************************************)
EXTENDS Integers, Sequences, FiniteSets, TLC

VARIABLES
  cells,          \* page.tsx: useState<CellData[]>
  selectedIndex,  \* page.tsx: useState<number | null>
  isSearchOpen,   \* page.tsx: modal open flag
  searchType,     \* page.tsx: "game" | "anime"
  query,          \* page.tsx: text of the query input
  results,        \* page.tsx: SearchResult[]
  isSearching,    \* page.tsx: loading flag
  searchError,    \* page.tsx: string | null
  searches,       \* runSearch calls awaiting their fetch, in start order; newerOk
                  \* records that a call started later has already succeeded
  readers,        \* FileReaders awaiting onload/onerror, in start order
  alerted,        \* the alert() shown by the latest handler, or null
  staleShown,     \* TRUE in the state a stale call produces by delivering its
                  \* list: a call that succeeds after a call started later
  chartTitle,     \* page.tsx: text of the title input
  isExporting,    \* page.tsx: export in-progress flag
  exports,        \* exportPng calls awaiting toPng, in start order
  downloaded,     \* the download link clicked last, or null
  env,            \* route.ts: process.env, the two Twitch credentials
  cachedToken,    \* route.ts: let cachedToken: { token, expiresAt } | null
  clock,          \* route.ts: the value Date.now() returns, in milliseconds
  reqs,           \* game GET requests suspended at an await, in arrival order
  lastResponse    \* the game GET request that finished in the latest step, or null

exportVars == <<chartTitle, isExporting, exports, downloaded>>

clientVars == <<cells, selectedIndex, isSearchOpen, searchType, query, results,
                isSearching, searchError, searches, readers, alerted, staleShown,
                chartTitle, isExporting, exports, downloaded>>

serverVars == <<env, cachedToken, clock, reqs, lastResponse>>

vars == <<cells, selectedIndex, isSearchOpen, searchType, query, results,
          isSearching, searchError, searches, readers, alerted, staleShown,
          chartTitle, isExporting, exports, downloaded,
          env, cachedToken, clock, reqs, lastResponse>>

----------------------------------------------------------------------------
(* Bounds of the model *)

MaxSearches == 2   \* runSearch calls in flight at the same time
MaxReaders == 1    \* FileReaders in flight at the same time
MaxReqs == 2       \* GET requests of the proxies in flight at the same time
MaxTicks == 2      \* how many times the clock advances
TickMs == 30000    \* the clock advances in steps of 30 seconds

----------------------------------------------------------------------------
(* JavaScript helpers *)

null == <<>>
undefined == <<>>
Some(v) == <<v>>

\* String.prototype.trim on the blank character
RECURSIVE TrimStart(_)
TrimStart(s) ==
  IF Len(s) > 0 /\ SubSeq(s, 1, 1) = " " THEN TrimStart(SubSeq(s, 2, Len(s))) ELSE s

RECURSIVE TrimEnd(_)
TrimEnd(s) ==
  IF Len(s) > 0 /\ SubSeq(s, Len(s), Len(s)) = " "
  THEN TrimEnd(SubSeq(s, 1, Len(s) - 1)) ELSE s

\* trim that strips nothing
TrimNothing(s) == s

Trim(s) == TrimEnd(TrimStart(s))

\* String.prototype.startsWith
StartsWith(s, prefix) ==
  Len(s) >= Len(prefix) /\ SubSeq(s, 1, Len(prefix)) = prefix

\* a || b on strings: the empty string is falsy
OrElse(a, b) == IF a = "" THEN b ELSE a

\* the sequence s without its k-th element
RemoveAt(s, k) == SubSeq(s, 1, k - 1) \o SubSeq(s, k + 1, Len(s))

----------------------------------------------------------------------------
(* page.tsx: the editor *)

rows == 3
cols == 6

defaultLabels ==
  << "Favorite Game of all Time", "Favorite Series", "Best Soundtrack",
     "Favorite Protagonist", "Favorite Villain", "Best Story",
     "Have not played but want to", "You Love Everyone Hates",
     "You Hate Everyone Loves", "Best Art Style", "Favorite Ending",
     "Favorite Boss Fight", "Childhood Game", "Relaxing Game",
     "Stressful Game", "Game you always come back to", "Guilty Pleasure",
     "Tons of Hours Played" >>

\* defaultLabels.map((label) => ({ label })), a JavaScript array (0-based)
InitialCells ==
  [i \in 0..(Len(defaultLabels) - 1) |->
     [label |-> defaultLabels[i + 1], imageUrl |-> undefined]]

\* the grid renders rows * cols buttons; button i calls setSelectedIndex(i)
GridIndices == 0..(rows * cols - 1)

\* the grid buttons the user clicks
ClickIdx == {3, 17}

\* the values typed into the label input
LabelInputs == {"X"}

\* the files offered to the hidden file input
Files ==
  { [type |-> "image/png", body |-> "iVBOR"],
    [type |-> "text/plain", body |-> "aGVsbG8"],
    [type |-> "image", body |-> "AAAA"] }

\* { ...cell, ...patch }: the fields of patch replace those of cell
Merge(cell, patch) ==
  [k \in DOMAIN cell \cup DOMAIN patch |->
     IF k \in DOMAIN patch THEN patch[k] ELSE cell[k]]

\* updateSelected with the patch spread over every cell instead of the
\* selected one
updateSelectedEveryCell(sel, patch, prev) ==
  IF sel = null THEN prev
  ELSE [i \in DOMAIN prev |-> Merge(prev[i], patch)]

\* updateSelected as seen by a closure that captured selectedIndex = sel;
\* prev is the cell array at the time React applies the update
updateSelected(sel, patch, prev) ==
  IF sel = null THEN prev
  ELSE [prev EXCEPT ![sel[1]] = Merge(@, patch)]

\* String(reader.result) after readAsDataURL(file)
DataUrl(file) == "data:" \o file.type \o ";base64," \o file.body

RejectMessage == "Please upload an image file (png/jpg/webp/etc)."
ReadFailMessage == "Failed to read the image file."

\* the MIME test without the slash: file.type.startsWith("image")
IsImageFileNoSlash(file) == StartsWith(file.type, "image")

\* file.type.startsWith("image/")
IsImageFile(file) == StartsWith(file.type, "image/")

\* the grid button storing a 1-based index
SelectCellOneBased(i) ==
  /\ i \in GridIndices
  /\ selectedIndex' = Some(i + 1)
  /\ alerted' = null
  /\ staleShown' = FALSE
  /\ UNCHANGED serverVars
  /\ UNCHANGED exportVars
  /\ UNCHANGED <<cells, isSearchOpen, searchType, query, results, isSearching,
                 searchError, searches, readers>>

\* grid cell button: onClick={() => setSelectedIndex(i)}
SelectCell(i) ==
  /\ i \in GridIndices
  /\ selectedIndex' = Some(i)
  /\ alerted' = null
  /\ staleShown' = FALSE
  /\ UNCHANGED serverVars
  /\ UNCHANGED exportVars
  /\ UNCHANGED <<cells, isSearchOpen, searchType, query, results, isSearching,
                 searchError, searches, readers>>

\* label input: onChange={(e) => updateSelected({ label: e.target.value })};
\* the input is rendered only while a cell is selected
EditLabel(v) ==
  /\ selectedIndex # null
  /\ cells' = updateSelected(selectedIndex, [label |-> v], cells)
  /\ alerted' = null
  /\ staleShown' = FALSE
  /\ UNCHANGED serverVars
  /\ UNCHANGED exportVars
  /\ UNCHANGED <<selectedIndex, isSearchOpen, searchType, query, results,
                 isSearching, searchError, searches, readers>>

\* Clear button: clearImage(); rendered only while a cell is selected
clearImage ==
  /\ selectedIndex # null
  /\ cells' = updateSelected(selectedIndex, [imageUrl |-> undefined], cells)
  /\ alerted' = null
  /\ staleShown' = FALSE
  /\ UNCHANGED serverVars
  /\ UNCHANGED exportVars
  /\ UNCHANGED <<selectedIndex, isSearchOpen, searchType, query, results,
                 isSearching, searchError, searches, readers>>

\* hidden file input onChange -> handleUploadImage(file)
handleUploadImage(file) ==
  /\ Len(readers) < MaxReaders
  /\ IF selectedIndex = null
     THEN /\ alerted' = null
          /\ readers' = readers
     ELSE IF ~IsImageFile(file)
     THEN /\ alerted' = Some(RejectMessage)
          /\ readers' = readers
     ELSE /\ alerted' = null
          /\ readers' = Append(readers, [sel |-> selectedIndex, file |-> file])
  /\ staleShown' = FALSE
  /\ UNCHANGED serverVars
  /\ UNCHANGED exportVars
  /\ UNCHANGED <<cells, selectedIndex, isSearchOpen, searchType, query, results,
                 isSearching, searchError, searches>>

\* reader.onload patching the cell that is selected when the read completes
ReaderLoadCurrentSelection(k) ==
  /\ k \in 1..Len(readers)
  /\ cells' = updateSelected(selectedIndex,
                             [imageUrl |-> Some(DataUrl(readers[k].file))], cells)
  /\ readers' = RemoveAt(readers, k)
  /\ alerted' = null
  /\ staleShown' = FALSE
  /\ UNCHANGED serverVars
  /\ UNCHANGED exportVars
  /\ UNCHANGED <<selectedIndex, isSearchOpen, searchType, query, results,
                 isSearching, searchError, searches>>

\* reader.onload: updateSelected({ imageUrl: dataUrl }) of the render in which
\* the upload was started
ReaderLoad(k) ==
  /\ k \in 1..Len(readers)
  /\ cells' = updateSelected(readers[k].sel,
                             [imageUrl |-> Some(DataUrl(readers[k].file))], cells)
  /\ readers' = RemoveAt(readers, k)
  /\ alerted' = null
  /\ staleShown' = FALSE
  /\ UNCHANGED serverVars
  /\ UNCHANGED exportVars
  /\ UNCHANGED <<selectedIndex, isSearchOpen, searchType, query, results,
                 isSearching, searchError, searches>>

\* reader.onerror
ReaderError(k) ==
  /\ k \in 1..Len(readers)
  /\ readers' = RemoveAt(readers, k)
  /\ alerted' = Some(ReadFailMessage)
  /\ staleShown' = FALSE
  /\ UNCHANGED serverVars
  /\ UNCHANGED exportVars
  /\ UNCHANGED <<cells, selectedIndex, isSearchOpen, searchType, query, results,
                 isSearching, searchError, searches>>

----------------------------------------------------------------------------
(* page.tsx: the search modal *)

SearchTypes == {"game", "anime"}

\* the texts typed into the query input
QueryInputs == {" a "}

\* one SearchResult of the proxy's JSON body
Result(id, title, imageUrl) ==
  [id |-> id, title |-> title, year |-> undefined, imageUrl |-> imageUrl]

\* the result lists a proxy answers with for the request /api/search/type?q=q
Catalog(type, q) ==
  IF type = "game"
  THEN { <<Result("7", q, "http://x/y.jpg"), Result("9", q, "http://x/z.jpg")>> }
  ELSE { <<Result("9", q, "http://x/z.jpg")>> }

\* what the awaited fetch of a runSearch call can come back with:
\*   ok     - res.ok, JSON body { results } (body.results may be missing)
\*   notok  - !res.ok, res.text() is text
\*   throw  - fetch or res.json() throws e, e?.message is message
Outcomes(req) ==
  {[kind |-> "ok", results |-> Some(r)] : r \in Catalog(req.type, req.q)}
    \cup {[kind |-> "ok", results |-> undefined]}
    \cup {[kind |-> "notok", text |-> t] : t \in {"IGDB search failed"}}
    \cup {[kind |-> "throw", message |-> m] : m \in {undefined}}

\* Search button of the editor panel: onClick={() => setIsSearchOpen(true)};
\* rendered only while a cell is selected
OpenSearch ==
  /\ selectedIndex # null
  /\ isSearchOpen' = TRUE
  /\ alerted' = null
  /\ staleShown' = FALSE
  /\ UNCHANGED serverVars
  /\ UNCHANGED exportVars
  /\ UNCHANGED <<cells, selectedIndex, searchType, query, results, isSearching,
                 searchError, searches, readers>>

\* closing the modal that also empties the result list
CloseSearchDiscarding ==
  /\ isSearchOpen
  /\ isSearchOpen' = FALSE
  /\ results' = <<>>
  /\ alerted' = null
  /\ staleShown' = FALSE
  /\ UNCHANGED serverVars
  /\ UNCHANGED exportVars
  /\ UNCHANGED <<cells, selectedIndex, searchType, query, isSearching,
                 searchError, searches, readers>>

\* Close button, backdrop click and the Escape key listener: each of the
\* three is setIsSearchOpen(false), available only while the modal is open
CloseSearch ==
  /\ isSearchOpen
  /\ isSearchOpen' = FALSE
  /\ alerted' = null
  /\ staleShown' = FALSE
  /\ UNCHANGED serverVars
  /\ UNCHANGED exportVars
  /\ UNCHANGED <<cells, selectedIndex, searchType, query, results, isSearching,
                 searchError, searches, readers>>

\* <select> onChange={(e) => setSearchType(e.target.value)}
SetSearchType(t) ==
  /\ isSearchOpen
  /\ t \in SearchTypes
  /\ searchType' = t
  /\ alerted' = null
  /\ staleShown' = FALSE
  /\ UNCHANGED serverVars
  /\ UNCHANGED exportVars
  /\ UNCHANGED <<cells, selectedIndex, isSearchOpen, query, results, isSearching,
                 searchError, searches, readers>>

\* query input onChange={(e) => setQuery(e.target.value)}
SetQuery(s) ==
  /\ isSearchOpen
  /\ query' = s
  /\ alerted' = null
  /\ staleShown' = FALSE
  /\ UNCHANGED serverVars
  /\ UNCHANGED exportVars
  /\ UNCHANGED <<cells, selectedIndex, isSearchOpen, searchType, results,
                 isSearching, searchError, searches, readers>>

\* runSearch without setSearchError(null)
runSearchKeepError ==
  LET q == Trim(query) IN
  IF q = ""
  THEN UNCHANGED <<isSearching, searchError, results, searches>>
  ELSE /\ isSearching' = TRUE
       /\ searchError' = searchError
       /\ results' = <<>>
       /\ searches' = Append(searches,
                             [type |-> searchType, q |-> q, newerOk |-> FALSE])

\* runSearch up to its await: returns on a blank query, otherwise sets the
\* three state variables and issues the fetch
runSearch ==
  LET q == Trim(query) IN
  IF q = ""
  THEN UNCHANGED <<isSearching, searchError, results, searches>>
  ELSE /\ isSearching' = TRUE
       /\ searchError' = null
       /\ results' = <<>>
       /\ searches' = Append(searches,
                             [type |-> searchType, q |-> q, newerOk |-> FALSE])

\* Search button of the modal: onClick={runSearch} disabled={isSearching}
SearchClick ==
  /\ isSearchOpen
  /\ ~isSearching
  /\ Len(searches) < MaxSearches
  /\ runSearch
  /\ alerted' = null
  /\ staleShown' = FALSE
  /\ UNCHANGED serverVars
  /\ UNCHANGED exportVars
  /\ UNCHANGED <<cells, selectedIndex, isSearchOpen, searchType, query, readers>>

\* query input onKeyDown: if (e.key === "Enter") runSearch()
SearchEnter ==
  /\ isSearchOpen
  /\ Len(searches) < MaxSearches
  /\ runSearch
  /\ alerted' = null
  /\ staleShown' = FALSE
  /\ UNCHANGED serverVars
  /\ UNCHANGED exportVars
  /\ UNCHANGED <<cells, selectedIndex, isSearchOpen, searchType, query, readers>>

\* the text runSearch stores in searchError for a failed outcome
FailureText(o) ==
  IF o.kind = "notok" THEN OrElse(o.text, "Search failed")
  ELSE IF o.message = undefined THEN "Search failed" ELSE o.message[1]

\* runSearch after its await with request identities reconciled: the list of
\* a call is dropped once a call started later has succeeded
SearchResolveLatestWins(k, o) ==
  /\ k \in 1..Len(searches)
  /\ o \in Outcomes(searches[k])
  /\ IF o.kind = "ok"
     THEN /\ results' = (IF searches[k].newerOk THEN results
                         ELSE IF o.results = undefined THEN <<>> ELSE o.results[1])
          /\ searchError' = searchError
     ELSE /\ searchError' = Some(FailureText(o))
          /\ results' = results
  /\ isSearching' = FALSE
  /\ searches' = RemoveAt([n \in 1..Len(searches) |->
                             [searches[n] EXCEPT
                                !.newerOk = @ \/ (n < k /\ o.kind = "ok")]], k)
  /\ staleShown' = (o.kind = "ok" /\ searches[k].newerOk)
  /\ alerted' = null
  /\ UNCHANGED serverVars
  /\ UNCHANGED exportVars
  /\ UNCHANGED <<cells, selectedIndex, isSearchOpen, searchType, query, readers>>

\* runSearch after its await: try / catch / finally of the k-th call in flight
SearchResolve(k, o) ==
  /\ k \in 1..Len(searches)
  /\ o \in Outcomes(searches[k])
  /\ IF o.kind = "ok"
     THEN /\ results' = (IF o.results = undefined THEN <<>> ELSE o.results[1])
          /\ searchError' = searchError
     ELSE /\ searchError' = Some(FailureText(o))
          /\ results' = results
  /\ isSearching' = FALSE
  /\ searches' = RemoveAt([n \in 1..Len(searches) |->
                             [searches[n] EXCEPT
                                !.newerOk = @ \/ (n < k /\ o.kind = "ok")]], k)
  /\ staleShown' = (o.kind = "ok" /\ searches[k].newerOk)
  /\ alerted' = null
  /\ UNCHANGED serverVars
  /\ UNCHANGED exportVars
  /\ UNCHANGED <<cells, selectedIndex, isSearchOpen, searchType, query, readers>>

\* pickResult taking the first displayed result whichever button was clicked
pickResultFirst(j) ==
  /\ isSearchOpen
  /\ j \in 1..Len(results)
  /\ IF selectedIndex = null
     THEN UNCHANGED <<cells, isSearchOpen>>
     ELSE /\ cells' = updateSelected(selectedIndex,
                                     [imageUrl |-> Some(results[1].imageUrl)], cells)
          /\ isSearchOpen' = FALSE
  /\ alerted' = null
  /\ staleShown' = FALSE
  /\ UNCHANGED serverVars
  /\ UNCHANGED exportVars
  /\ UNCHANGED <<selectedIndex, searchType, query, results, isSearching,
                 searchError, searches, readers>>

\* result button: onClick={() => pickResult(r)}, r the j-th displayed result
pickResult(j) ==
  /\ isSearchOpen
  /\ j \in 1..Len(results)
  /\ IF selectedIndex = null
     THEN UNCHANGED <<cells, isSearchOpen>>
     ELSE /\ cells' = updateSelected(selectedIndex,
                                     [imageUrl |-> Some(results[j].imageUrl)], cells)
          /\ isSearchOpen' = FALSE
  /\ alerted' = null
  /\ staleShown' = FALSE
  /\ UNCHANGED serverVars
  /\ UNCHANGED exportVars
  /\ UNCHANGED <<selectedIndex, searchType, query, results, isSearching,
                 searchError, searches, readers>>

----------------------------------------------------------------------------
(* page.tsx: the PNG export *)

\* the texts typed into the title input
TitleInputs == {"", "A/B?"}

ExportFailMessage ==
  "Export failed. If this happens after adding external images, it may be a CORS issue. (Uploads should export reliably.)"

\* name.replace(/[\\/:*?"<>|]/g, "")
RECURSIVE StripReserved(_)
StripReserved(s) ==
  IF s = "" THEN ""
  ELSE (IF SubSeq(s, 1, 1) \in {"\\", "/", ":", "*", "?", "\"", "<", ">", "|"}
        THEN "" ELSE SubSeq(s, 1, 1))
         \o StripReserved(SubSeq(s, 2, Len(s)))

\* `${(chartTitle || "chart").replace(...)}.png`
FileName(title) == StripReserved(OrElse(title, "chart")) \o ".png"

\* what the awaited toPng can come back with: a data URL, or a rejection
PngOutcomes ==
  {[kind |-> "ok", dataUrl |-> "data:image/png;base64,UE5H"], [kind |-> "throw"]}

\* title input: onChange={(e) => setChartTitle(e.target.value)}
SetChartTitle(t) ==
  /\ chartTitle' = t
  /\ downloaded' = downloaded
  /\ alerted' = null
  /\ staleShown' = FALSE
  /\ UNCHANGED serverVars
  /\ UNCHANGED <<isExporting, exports>>
  /\ UNCHANGED <<cells, selectedIndex, isSearchOpen, searchType, query, results,
                 isSearching, searchError, searches, readers>>

\* Export PNG button: onClick={exportPng} disabled={isExporting}; exportPng up
\* to its await (exportRef.current is the mounted export area); the call keeps
\* the chartTitle of the render it was started in
ExportClick ==
  /\ ~isExporting
  /\ isExporting' = TRUE
  /\ exports' = Append(exports, [title |-> chartTitle])
  /\ downloaded' = downloaded
  /\ alerted' = null
  /\ staleShown' = FALSE
  /\ UNCHANGED serverVars
  /\ UNCHANGED chartTitle
  /\ UNCHANGED <<cells, selectedIndex, isSearchOpen, searchType, query, results,
                 isSearching, searchError, searches, readers>>

\* exportPng after its await with the catch branch leaving the flag set
ExportResolveFlagKeptOnFailure(k, o) ==
  /\ k \in 1..Len(exports)
  /\ o \in PngOutcomes
  /\ IF o.kind = "ok"
     THEN /\ downloaded' = Some([download |-> FileName(exports[k].title),
                                 href |-> o.dataUrl])
          /\ alerted' = null
          /\ isExporting' = FALSE
     ELSE /\ downloaded' = downloaded
          /\ alerted' = Some(ExportFailMessage)
          /\ isExporting' = isExporting
  /\ exports' = RemoveAt(exports, k)
  /\ staleShown' = FALSE
  /\ UNCHANGED serverVars
  /\ UNCHANGED chartTitle
  /\ UNCHANGED <<cells, selectedIndex, isSearchOpen, searchType, query, results,
                 isSearching, searchError, searches, readers>>

\* exportPng after its await: the download link, or catch, then finally
ExportResolve(k, o) ==
  /\ k \in 1..Len(exports)
  /\ o \in PngOutcomes
  /\ IF o.kind = "ok"
     THEN /\ downloaded' = Some([download |-> FileName(exports[k].title),
                                 href |-> o.dataUrl])
          /\ alerted' = null
     ELSE /\ downloaded' = downloaded
          /\ alerted' = Some(ExportFailMessage)
  /\ isExporting' = FALSE
  /\ exports' = RemoveAt(exports, k)
  /\ staleShown' = FALSE
  /\ UNCHANGED serverVars
  /\ UNCHANGED chartTitle
  /\ UNCHANGED <<cells, selectedIndex, isSearchOpen, searchType, query, results,
                 isSearching, searchError, searches, readers>>

----------------------------------------------------------------------------
(* route.ts: the game search proxy and its token cache *)

SafetyBufferMs == 60000

\* the environments the process runs with: both credentials set, the
\* client id unset, the client secret set to the empty string
EnvInputs ==
  { [TWITCH_CLIENT_ID |-> Some("cid"), TWITCH_CLIENT_SECRET |-> Some("sec")],
    [TWITCH_CLIENT_ID |-> undefined, TWITCH_CLIENT_SECRET |-> Some("sec")],
    [TWITCH_CLIENT_ID |-> Some("cid"), TWITCH_CLIENT_SECRET |-> Some("")] }

\* the credential test that takes only an unset variable as missing
FalsyOnlyUndefined(v) == v = undefined

\* !v for v: string | undefined
Falsy(v) == v = undefined \/ v[1] = ""

\* searchParams.get("q") of the requests: absent, empty, blank, a name with
\* a quote
QParams == {undefined, Some(""), Some("  "), Some(" a\"b ")}

\* expires_in (seconds) of the token endpoint's answers
ExpiresIn == {120}

\* the instants the clock takes
Times == {n * TickMs : n \in 0..MaxTicks}

\* q.replace(/"/g, "")
RECURSIVE StripQuotes(_)
StripQuotes(s) ==
  IF s = "" THEN ""
  ELSE (IF SubSeq(s, 1, 1) = "\"" THEN "" ELSE SubSeq(s, 1, 1))
         \o StripQuotes(SubSeq(s, 2, Len(s)))

\* the Apicalypse body of the IGDB request
IgdbBody(q) ==
  "search \"" \o StripQuotes(q) \o "\";\n"
    \o "    fields name, first_release_date, cover.image_id;\n"
    \o "    where version_parent = null;\n"
    \o "    limit 24;"

IsLeap(y) == (y % 4 = 0 /\ y % 100 # 0) \/ y % 400 = 0

RECURSIVE YearFrom(_, _)
YearFrom(days, y) ==
  LET n == IF IsLeap(y) THEN 366 ELSE 365
  IN IF days < n THEN y ELSE YearFrom(days - n, y + 1)

\* new Date(sec * 1000).getUTCFullYear() for sec >= 0; the day number
\* (sec * 1000) \div 86400000 is computed as sec \div 86400, which is the same
\* number and stays within TLC's 32-bit integers
UTCFullYear(sec) == YearFrom(sec \div 86400, 1970)

\* the IGDBGame lists the upstream answers with
GameLists ==
  { <<>>,
    << [id |-> "7", name |-> "Halo", first_release_date |-> Some(1005782400),
        cover |-> Some([image_id |-> Some("co1")])],
       [id |-> "8", name |-> "Lost", first_release_date |-> undefined,
        cover |-> undefined] >> }

\* games.map(...) of the game GET handler, for one game
GameResult(g) ==
  [id |-> g.id,
   title |-> g.name,
   year |-> IF g.first_release_date = undefined \/ g.first_release_date[1] = 0
            THEN undefined
            ELSE Some(UTCFullYear(g.first_release_date[1])),
   imageUrl |-> IF g.cover = undefined \/ Falsy(g.cover[1].image_id) THEN ""
                ELSE "https://images.igdb.com/igdb/image/upload/t_cover_big/"
                       \o g.cover[1].image_id[1] \o ".jpg"]

\* .filter((r) => r.imageUrl)
RECURSIVE WithImage(_)
WithImage(rs) ==
  IF rs = <<>> THEN <<>>
  ELSE (IF Head(rs).imageUrl = "" THEN <<>> ELSE <<Head(rs)>>) \o WithImage(Tail(rs))

GameResults(games) == WithImage([n \in 1..Len(games) |-> GameResult(games[n])])

\* the cache test without the safety buffer: cachedToken.expiresAt > now
TokenValidNoBuffer(cache, now) ==
  cache # null /\ cache[1].expiresAt > now

\* cachedToken && cachedToken.expiresAt - 60_000 > now
TokenValid(cache, now) ==
  cache # null /\ cache[1].expiresAt - SafetyBufferMs > now

\* what the awaited fetch of the token endpoint can come back with; an issued
\* access token is identified by its issue instant and its lifetime
TokenOutcomes(r) ==
  {[kind |-> "ok", access_token |-> [iss |-> t, expires_in |-> e], expires_in |-> e] :
      t \in {u \in Times : r.now <= u /\ u <= clock}, e \in ExpiresIn}
    \cup {[kind |-> "notok", text |-> t] : t \in {"", "invalid client"}}
    \cup {[kind |-> "throw"]}

\* what the awaited fetch of the IGDB endpoint can come back with
IgdbOutcomes ==
  {[kind |-> "ok", games |-> g] : g \in GameLists}
    \cup {[kind |-> "notok", text |-> t] : t \in {"", "Too Many Requests"}}
    \cup {[kind |-> "throw"]}

\* the record of a finished request: route is the endpoint ("game" or
\* "anime"); keysOk is FALSE when a credential was found missing; thrown marks
\* an error that escaped the handler (the framework answers 500); body is [results |-> ...] for a JSON
\* answer, [text |-> ...] for a plain one, [error |-> ...] for the message of
\* the thrown error; exchanged and searched tell whether the request fetched
\* the token endpoint and the IGDB endpoint
Finished(route, q, keysOk, status, thrown, body, exchanged, searched) ==
  Some([route |-> route, q |-> q, keysOk |-> keysOk, status |-> status,
        thrown |-> thrown,
        body |-> body, exchanged |-> exchanged, searched |-> searched])

\* game GET up to its first await: the blank-query answer, then
\* getTwitchAppToken up to its fetch (or its return of the cached token,
\* after which the handler issues the IGDB fetch)
GameGet(param) ==
  LET q == Trim(IF param = undefined THEN "" ELSE param[1])
      clientId == env.TWITCH_CLIENT_ID
      clientSecret == env.TWITCH_CLIENT_SECRET
      now == clock
  IN
  /\ Len(reqs) < MaxReqs
  /\ IF q = ""
     THEN /\ lastResponse' = Finished("game", q, TRUE, 200, FALSE, [results |-> <<>>], FALSE, FALSE)
          /\ UNCHANGED reqs
     ELSE IF Falsy(clientId) \/ Falsy(clientSecret)
     THEN /\ lastResponse' =
               Finished("game", q, FALSE, 500, TRUE,
                        [error |-> "Missing TWITCH_CLIENT_ID or TWITCH_CLIENT_SECRET in .env.local"],
                        FALSE, FALSE)
          /\ UNCHANGED reqs
     ELSE IF TokenValid(cachedToken, now)
     THEN /\ reqs' = Append(reqs, [pc |-> "igdb", q |-> q, now |-> now,
                                   clientId |-> clientId[1],
                                   token |-> Some(cachedToken[1].token),
                                   body |-> IgdbBody(q), exchanged |-> FALSE])
          /\ lastResponse' = null
     ELSE /\ reqs' = Append(reqs, [pc |-> "token", q |-> q, now |-> now,
                                   clientId |-> clientId[1],
                                   token |-> undefined,
                                   body |-> "", exchanged |-> TRUE])
          /\ lastResponse' = null
  /\ UNCHANGED <<env, cachedToken, clock>>
  /\ UNCHANGED clientVars

\* getTwitchAppToken computing expiresAt from the clock read after the fetch
TokenResponseNowAfterFetch(k, o) ==
  /\ k \in 1..Len(reqs)
  /\ reqs[k].pc = "token"
  /\ o \in TokenOutcomes(reqs[k])
  /\ IF o.kind = "ok"
     THEN /\ cachedToken' = Some([token |-> o.access_token,
                                  expiresAt |-> clock + o.expires_in * 1000])
          /\ reqs' = [reqs EXCEPT ![k] = [@ EXCEPT !.pc = "igdb",
                                                    !.token = Some(cachedToken'[1].token),
                                                    !.body = IgdbBody(reqs[k].q)]]
          /\ lastResponse' = null
     ELSE /\ UNCHANGED cachedToken
          /\ reqs' = RemoveAt(reqs, k)
          /\ lastResponse' =
               Finished("game", reqs[k].q, TRUE, 500, TRUE,
                        [error |-> IF o.kind = "notok"
                                   THEN OrElse(o.text, "Failed to get Twitch token")
                                   ELSE "fetch failed"],
                        TRUE, FALSE)
  /\ UNCHANGED <<env, clock>>
  /\ UNCHANGED clientVars

\* getTwitchAppToken after its fetch, then the handler up to the IGDB fetch
TokenResponse(k, o) ==
  /\ k \in 1..Len(reqs)
  /\ reqs[k].pc = "token"
  /\ o \in TokenOutcomes(reqs[k])
  /\ IF o.kind = "ok"
     THEN /\ cachedToken' = Some([token |-> o.access_token,
                                  expiresAt |-> reqs[k].now + o.expires_in * 1000])
          /\ reqs' = [reqs EXCEPT ![k] = [@ EXCEPT !.pc = "igdb",
                                                    !.token = Some(cachedToken'[1].token),
                                                    !.body = IgdbBody(reqs[k].q)]]
          /\ lastResponse' = null
     ELSE /\ UNCHANGED cachedToken
          /\ reqs' = RemoveAt(reqs, k)
          /\ lastResponse' =
               Finished("game", reqs[k].q, TRUE, 500, TRUE,
                        [error |-> IF o.kind = "notok"
                                   THEN OrElse(o.text, "Failed to get Twitch token")
                                   ELSE "fetch failed"],
                        TRUE, FALSE)
  /\ UNCHANGED <<env, clock>>
  /\ UNCHANGED clientVars

\* the game GET handler after its IGDB fetch
IgdbResponse(k, o) ==
  /\ k \in 1..Len(reqs)
  /\ reqs[k].pc = "igdb"
  /\ o \in IgdbOutcomes
  /\ reqs' = RemoveAt(reqs, k)
  /\ lastResponse' =
       IF o.kind = "ok"
       THEN Finished("game", reqs[k].q, TRUE, 200, FALSE, [results |-> GameResults(o.games)],
                     reqs[k].exchanged, TRUE)
       ELSE IF o.kind = "notok"
       THEN Finished("game", reqs[k].q, TRUE, 500, FALSE,
                     [text |-> OrElse(o.text, "IGDB search failed")],
                     reqs[k].exchanged, TRUE)
       ELSE Finished("game", reqs[k].q, TRUE, 500, TRUE, [error |-> "fetch failed"],
                     reqs[k].exchanged, TRUE)
  /\ UNCHANGED <<env, cachedToken, clock>>
  /\ UNCHANGED clientVars

\* the GraphQL document the anime GET handler sends
AniListQuery ==
  "\n    query ($search: String) {\n"
    \o "      Page(page: 1, perPage: 24) {\n"
    \o "        media(search: $search, type: ANIME, sort: POPULARITY_DESC) {\n"
    \o "          id\n"
    \o "          title { romaji english native }\n"
    \o "          coverImage { extraLarge large }\n"
    \o "          seasonYear\n"
    \o "          startDate { year }\n"
    \o "        }\n"
    \o "      }\n"
    \o "    }\n"
    \o "  "

\* the characters of a string as JSON.stringify writes them inside quotes;
\* the string is escaped half by half
RECURSIVE JsonEscape(_)
JsonEscape(s) ==
  IF s = "" THEN ""
  ELSE IF Len(s) = 1
  THEN (IF s = "\"" THEN "\\\""
        ELSE IF s = "\\" THEN "\\\\"
        ELSE IF s = "\n" THEN "\\n"
        ELSE s)
  ELSE JsonEscape(SubSeq(s, 1, Len(s) \div 2))
         \o JsonEscape(SubSeq(s, Len(s) \div 2 + 1, Len(s)))

\* the GraphQL document as JSON.stringify writes it
AniListQueryJson == "\"" \o JsonEscape(AniListQuery) \o "\""

\* JSON.stringify({ query, variables: { search: q } })
AniListBody(q) ==
  "{\"query\":" \o AniListQueryJson
    \o ",\"variables\":{\"search\":\"" \o JsonEscape(q) \o "\"}}"

\* String(n) for an integer n >= 0
RECURSIVE String(_)
String(n) ==
  IF n < 10 THEN SubSeq("0123456789", n + 1, n + 1)
  ELSE String(n \div 10) \o SubSeq("0123456789", (n % 10) + 1, (n % 10) + 1)

\* a || b || ... on optional strings: the first that is neither undefined
\* nor empty, or undefined
RECURSIVE FirstTruthy(_)
FirstTruthy(vs) ==
  IF vs = <<>> THEN undefined
  ELSE IF Head(vs) # undefined /\ Head(vs)[1] # "" THEN Head(vs)
  ELSE FirstTruthy(Tail(vs))

\* obj?.field for an optional record
Field(obj, f) == IF obj = undefined THEN undefined ELSE obj[1][f]

\* json.data?.Page?.media of the AniList answers: missing, or two media of
\* which the second has no cover image
MediaLists ==
  { undefined,
    Some(<< [id |-> 21,
             title |-> Some([romaji |-> Some("Wan Pisu"), english |-> Some(""),
                             native |-> undefined]),
             coverImage |-> Some([extraLarge |-> undefined,
                                  large |-> Some("http://a/21.jpg")]),
             seasonYear |-> Some(0),
             startDate |-> Some([year |-> Some(1999)])],
            [id |-> 105,
             title |-> undefined,
             coverImage |-> undefined,
             seasonYear |-> Some(2004),
             startDate |-> undefined] >>) }

\* the .map callback of the anime GET handler
AnimeResult(m) ==
  [id |-> String(m.id),
   title |-> LET t == FirstTruthy(<<Field(m.title, "english"), Field(m.title, "romaji"),
                                    Field(m.title, "native")>>)
             IN IF t = undefined THEN "Untitled" ELSE t[1],
   year |-> IF m.seasonYear # undefined /\ m.seasonYear[1] # 0 THEN m.seasonYear
            ELSE Field(m.startDate, "year"),
   imageUrl |-> LET u == FirstTruthy(<<Field(m.coverImage, "extraLarge"),
                                       Field(m.coverImage, "large")>>)
                IN IF u = undefined THEN "" ELSE u[1]]

\* json.data?.Page?.media?.map(...).filter((r) => r.imageUrl) ?? []
AnimeResults(media) ==
  IF media = undefined THEN <<>>
  ELSE WithImage([n \in 1..Len(media[1]) |-> AnimeResult(media[1][n])])

\* what the awaited fetch of the AniList endpoint can come back with
AnimeOutcomes ==
  {[kind |-> "ok", media |-> m] : m \in MediaLists}
    \cup {[kind |-> "notok", text |-> t] : t \in {"", "Too Many Requests"}}
    \cup {[kind |-> "throw"]}

\* anime GET up to its await: the blank-query answer, or the AniList fetch;
\* the handler reads neither the credentials nor the token cache (the now,
\* clientId, token and exchanged fields only give the suspended requests of
\* both handlers one shape)
AnimeGet(param) ==
  LET q == Trim(IF param = undefined THEN "" ELSE param[1])
  IN
  /\ Len(reqs) < MaxReqs
  /\ IF q = ""
     THEN /\ lastResponse' = Finished("anime", q, TRUE, 200, FALSE,
                                      [results |-> <<>>], FALSE, FALSE)
          /\ UNCHANGED reqs
     ELSE /\ reqs' = Append(reqs, [pc |-> "anilist", q |-> q, now |-> clock,
                                   clientId |-> "", token |-> undefined,
                                   body |-> AniListBody(q), exchanged |-> FALSE])
          /\ lastResponse' = null
  /\ UNCHANGED <<env, cachedToken, clock>>
  /\ UNCHANGED clientVars

\* the anime GET handler after its AniList fetch
AnimeResponse(k, o) ==
  /\ k \in 1..Len(reqs)
  /\ reqs[k].pc = "anilist"
  /\ o \in AnimeOutcomes
  /\ reqs' = RemoveAt(reqs, k)
  /\ lastResponse' =
       IF o.kind = "ok"
       THEN Finished("anime", reqs[k].q, TRUE, 200, FALSE,
                     [results |-> AnimeResults(o.media)], FALSE, TRUE)
       ELSE IF o.kind = "notok"
       THEN Finished("anime", reqs[k].q, TRUE, 500, FALSE,
                     [text |-> OrElse(o.text, "AniList search failed")], FALSE, TRUE)
       ELSE Finished("anime", reqs[k].q, TRUE, 500, TRUE, [error |-> "fetch failed"],
                     FALSE, TRUE)
  /\ UNCHANGED <<env, cachedToken, clock>>
  /\ UNCHANGED clientVars

\* time passes
Tick ==
  /\ clock < MaxTicks * TickMs
  /\ clock' = clock + TickMs
  /\ lastResponse' = null
  /\ UNCHANGED <<env, cachedToken, reqs>>
  /\ UNCHANGED clientVars

\* the operator changes the credentials of the running process
SetEnv(e) ==
  /\ e \in EnvInputs
  /\ env' = e
  /\ lastResponse' = null
  /\ UNCHANGED <<cachedToken, clock, reqs>>
  /\ UNCHANGED clientVars

----------------------------------------------------------------------------
(* The editor page as a state machine *)

ClientInit ==
  /\ cells = InitialCells
  /\ selectedIndex = null
  /\ isSearchOpen = FALSE
  /\ searchType = "game"
  /\ query = ""
  /\ results = <<>>
  /\ isSearching = FALSE
  /\ searchError = null
  /\ searches = <<>>
  /\ readers = <<>>
  /\ alerted = null
  /\ staleShown = FALSE
  /\ chartTitle = "About You: Video Games/Anime"
  /\ isExporting = FALSE
  /\ exports = <<>>
  /\ downloaded = null

ServerInit ==
  /\ env \in EnvInputs
  /\ cachedToken = null
  /\ clock = 0
  /\ reqs = <<>>
  /\ lastResponse = null

Init ==
  /\ ClientInit
  /\ ServerInit
  /\ ~Falsy(env.TWITCH_CLIENT_ID) /\ ~Falsy(env.TWITCH_CLIENT_SECRET)

\* the editing, upload and search handlers; the title input and the export
\* button, which read the cells and never write them, are in ExportNext
Next ==
  \/ \E i \in ClickIdx : SelectCell(i)
  \/ \E v \in LabelInputs : EditLabel(v)
  \/ clearImage
  \/ \E f \in Files : handleUploadImage(f)
  \/ \E k \in 1..Len(readers) : ReaderLoad(k)
  \/ \E k \in 1..Len(readers) : ReaderError(k)
  \/ OpenSearch
  \/ CloseSearch
  \/ \E t \in SearchTypes : SetSearchType(t)
  \/ \E s \in QueryInputs : SetQuery(s)
  \/ SearchClick
  \/ SearchEnter
  \/ \E k \in 1..Len(searches) : \E o \in Outcomes(searches[k]) : SearchResolve(k, o)
  \/ \E j \in 1..Len(results) : pickResult(j)

Spec == Init /\ [][Next]_vars

\* the page of a user who never uploads a file
SearchNext ==
  \/ \E i \in ClickIdx : SelectCell(i)
  \/ \E v \in LabelInputs : EditLabel(v)
  \/ clearImage
  \/ OpenSearch
  \/ CloseSearch
  \/ \E t \in SearchTypes : SetSearchType(t)
  \/ \E s \in QueryInputs : SetQuery(s)
  \/ SearchClick
  \/ SearchEnter
  \/ \E k \in 1..Len(searches) : \E o \in Outcomes(searches[k]) : SearchResolve(k, o)
  \/ \E j \in 1..Len(results) : pickResult(j)

SearchSpec == Init /\ [][SearchNext]_vars

\* the page of a user who never opens the search modal
UploadNext ==
  \/ \E i \in ClickIdx : SelectCell(i)
  \/ \E v \in LabelInputs : EditLabel(v)
  \/ clearImage
  \/ \E f \in Files : handleUploadImage(f)
  \/ \E k \in 1..Len(readers) : ReaderLoad(k)
  \/ \E k \in 1..Len(readers) : ReaderError(k)

UploadSpec == Init /\ [][UploadNext]_vars

\* the page of a user who edits labels and the title and exports the chart
ExportNext ==
  \/ \E i \in ClickIdx : SelectCell(i)
  \/ \E v \in LabelInputs : EditLabel(v)
  \/ \E t \in TitleInputs : SetChartTitle(t)
  \/ ExportClick
  \/ \E k \in 1..Len(exports) : \E o \in PngOutcomes : ExportResolve(k, o)

\* toPng settles: its promise is resolved or rejected
ExportSpec ==
  /\ Init
  /\ [][ExportNext]_vars
  /\ WF_vars(\E k \in 1..Len(exports) : \E o \in PngOutcomes : ExportResolve(k, o))

----------------------------------------------------------------------------
(* The search proxies as a state machine *)

ServerNext ==
  \/ \E p \in QParams : GameGet(p)
  \/ \E k \in 1..Len(reqs) : \E o \in TokenOutcomes(reqs[k]) : TokenResponse(k, o)
  \/ \E k \in 1..Len(reqs) : \E o \in IgdbOutcomes : IgdbResponse(k, o)
  \/ Tick
  \/ \E e \in EnvInputs : SetEnv(e)

\* the process starts with any of the environments, the page untouched
ProcessInit == ClientInit /\ ServerInit

ServerSpec == ProcessInit /\ [][ServerNext]_vars

\* the process serving both routes within one instant of the clock
ProxyNext ==
  \/ \E p \in QParams : GameGet(p)
  \/ \E k \in 1..Len(reqs) : \E o \in TokenOutcomes(reqs[k]) : TokenResponse(k, o)
  \/ \E k \in 1..Len(reqs) : \E o \in IgdbOutcomes : IgdbResponse(k, o)
  \/ \E e \in EnvInputs : SetEnv(e)
  \/ \E p \in QParams : AnimeGet(p)
  \/ \E k \in 1..Len(reqs) : \E o \in AnimeOutcomes : AnimeResponse(k, o)

ProxySpec == ProcessInit /\ [][ProxyNext]_vars

----------------------------------------------------------------------------
(* Properties of the editor *)

\* cell j has the same label and the same image before and after the step
SameCell(j) == cells'[j] = cells[j]

\* the step changes no cell other than cell i and keeps the array's indices
OnlyCellChanges(i) ==
  /\ DOMAIN cells' = DOMAIN cells
  /\ \A j \in DOMAIN cells : j # i => SameCell(j)

\* C1: a label patch with v while cell i is selected makes cells[i].label
\* equal to v, keeps cells[i].imageUrl, keeps every other cell (label and
\* image) and keeps the selection at i; clearImage changes nothing but the
\* image of cell i, which it removes.
C1_PatchFrame ==
  /\ [][\A v \in LabelInputs :
          EditLabel(v) =>
            /\ cells'[selectedIndex[1]].label = v
            /\ cells'[selectedIndex[1]].imageUrl = cells[selectedIndex[1]].imageUrl
            /\ OnlyCellChanges(selectedIndex[1])
            /\ selectedIndex' = selectedIndex]_vars
  /\ [][clearImage =>
          /\ cells'[selectedIndex[1]].imageUrl = <<>>
          /\ cells'[selectedIndex[1]].label = cells[selectedIndex[1]].label
          /\ OnlyCellChanges(selectedIndex[1])
          /\ selectedIndex' = selectedIndex]_vars

\* cell 3 was selected and patched to "X" while it held an image; cell 17
\* holds an image of its own and its default label
C1_Witness ==
  /\ selectedIndex = <<3>>
  /\ cells[3].label = "X"
  /\ cells[3].imageUrl = <<"http://x/y.jpg">>
  /\ cells[17].label = "Tons of Hours Played"
  /\ cells[17].imageUrl = <<"http://x/z.jpg">>

\* C2: picking the j-th displayed result r while the modal is open and cell i
\* is selected sets cells[i].imageUrl to exactly r.imageUrl, keeps
\* cells[i].label and every other cell, and closes the modal in the same step.
C2_PickAssignsAndCloses ==
  [][\A j \in 1..Len(results) :
       (pickResult(j) /\ selectedIndex # <<>>) =>
         /\ cells'[selectedIndex[1]].imageUrl = <<results[j].imageUrl>>
         /\ cells'[selectedIndex[1]].label = cells[selectedIndex[1]].label
         /\ OnlyCellChanges(selectedIndex[1])
         /\ isSearchOpen /\ ~isSearchOpen']_vars

\* the second of two displayed results was picked for the relabelled cell 17
C2_Witness ==
  /\ ~isSearchOpen
  /\ Len(results) = 2
  /\ selectedIndex = <<17>>
  /\ cells[17].imageUrl = <<results[2].imageUrl>>
  /\ results[2].imageUrl # results[1].imageUrl
  /\ cells[17].label = "X"
  /\ cells[3].imageUrl = <<>>

\* the cell array has 18 entries, indexed 0..17, and the selected index is
\* unset or one of them
CellsAndSelectionOk ==
  /\ DOMAIN cells = 0..17
  /\ Cardinality(DOMAIN cells) = 18
  /\ \/ selectedIndex = <<>>
     \/ /\ Len(selectedIndex) = 1
        /\ selectedIndex[1] \in DOMAIN cells

\* C3: initially no cell has an image and no cell is selected; in the initial
\* state and after any sequence of editor operations the cell array has
\* exactly 18 entries and the selected index is unset or an index into it.
C3_EighteenCellsSelectionInRange ==
  /\ \A i \in DOMAIN cells : cells[i].imageUrl = <<>>
  /\ selectedIndex = <<>>
  /\ []CellsAndSelectionOk

\* the last cell is selected and edited while a search and a file read are
\* in flight
C3_Witness ==
  /\ selectedIndex = <<17>>
  /\ cells[17].imageUrl # <<>>
  /\ cells[3].label = "X"
  /\ searches # <<>>
  /\ readers # <<>>
  /\ isSearchOpen

\* C4 as stated: when the file read of an accepted upload completes, the data
\* URL becomes the image of the cell that is selected at the moment of
\* completion, and no other cell changes.
C4_ImageGoesToCellSelectedAtCompletion ==
  [][\A k \in 1..Len(readers) :
       ReaderLoad(k) =>
         /\ selectedIndex # <<>>
         /\ cells'[selectedIndex[1]].imageUrl =
              <<"data:" \o readers[k].file.type \o ";base64," \o readers[k].file.body>>
         /\ OnlyCellChanges(selectedIndex[1])]_vars

\* C4: when the file read of an accepted upload completes, the data URL
\* becomes the image of the cell that was selected when the upload was
\* started, whichever cell is selected at the moment of completion; that
\* cell's label, every other cell and the selection are unchanged.
C4_ImageGoesToCellSelectedAtStart ==
  [][\A k \in 1..Len(readers) :
       ReaderLoad(k) =>
         /\ readers[k].sel # <<>>
         /\ cells'[readers[k].sel[1]].imageUrl =
              <<"data:" \o readers[k].file.type \o ";base64," \o readers[k].file.body>>
         /\ cells'[readers[k].sel[1]].label = cells[readers[k].sel[1]].label
         /\ OnlyCellChanges(readers[k].sel[1])
         /\ selectedIndex' = selectedIndex]_vars

\* an upload started for cell 3 is still being read while cell 17 is
\* selected; cell 3 already shows the image of an earlier upload and cell 17
\* shows none
C4_Witness ==
  /\ Len(readers) = 1
  /\ readers[1].sel = <<3>>
  /\ selectedIndex = <<17>>
  /\ cells[3].imageUrl = <<"data:image/png;base64,iVBOR">>
  /\ cells[17].imageUrl = <<>>

----------------------------------------------------------------------------
(* Properties of the search modal *)

\* C5: a search call that succeeds makes the displayed result list the list
\* of its own response, whatever its position in start order and whether or
\* not a call started after it has already succeeded; so of two overlapping
\* successful searches the one that resolves last is displayed, also when it
\* is the one started first.
C5_LastResolvedWins ==
  [][\A k \in 1..Len(searches) : \A o \in Outcomes(searches[k]) :
       (SearchResolve(k, o) /\ o.kind = "ok") =>
         results' = (IF o.results = <<>> THEN <<>> ELSE o.results[1])]_vars

\* every search has resolved and the step that led here was a stale success:
\* the two game results on display were delivered by a call that succeeded
\* after a call started later than it had already succeeded
C5_Witness ==
  /\ staleShown
  /\ searches = <<>>
  /\ searchType = "anime"
  /\ Len(results) = 2
  /\ results[1].id = "7"
  /\ ~isSearching

\* C6 as stated: in every state where the modal is closed the result list is
\* empty.
C6_ClosedModalHasNoResults ==
  ~isSearchOpen => results = <<>>

\* C6: closing the modal (Close button, backdrop click, Escape key or picking
\* a result) leaves the result list as it is, and so does reopening it; the
\* result list changes only when a search with a non-blank query starts,
\* which empties it, or when a search call finishes.
C6_ResultsSurviveClosing ==
  /\ [][(isSearchOpen /\ ~isSearchOpen') => results' = results]_vars
  /\ [][(~isSearchOpen /\ isSearchOpen') => results' = results]_vars
  /\ [][results' # results =>
          \/ Len(searches') = Len(searches) + 1 /\ results' = <<>>
          \/ Len(searches') = Len(searches) - 1]_vars

\* the modal is closed, no search is in flight, no cell has an image, and the
\* result list still holds the two results of a game search
C6_Witness ==
  /\ ~isSearchOpen
  /\ Len(results) = 2
  /\ searches = <<>>
  /\ \A i \in DOMAIN cells : cells[i].imageUrl = <<>>

\* C7: starting a search with a non-blank query empties the result list,
\* clears the error message, sets the loading flag and issues the proxy call
\* for the selected type and the trimmed query; when a call succeeds the
\* result list becomes the results of its response (none when the response
\* has no results member); when it fails the error message becomes the text
\* of the non-OK response or of the thrown error ("Search failed" when that
\* is missing) and the result list is kept; in both cases the loading flag is
\* cleared.
C7_SearchLifecycle ==
  /\ [][((SearchClick \/ SearchEnter) /\ Trim(query) # "") =>
          /\ results' = <<>>
          /\ searchError' = <<>>
          /\ isSearching' = TRUE
          /\ Len(searches') = Len(searches) + 1
          /\ searches'[Len(searches')].type = searchType
          /\ searches'[Len(searches')].q = Trim(query)]_vars
  /\ [][\A k \in 1..Len(searches) : \A o \in Outcomes(searches[k]) :
          SearchResolve(k, o) =>
            /\ o.kind = "ok" =>
                 /\ results' = (IF o.results = <<>> THEN <<>> ELSE o.results[1])
                 /\ searchError' = searchError
            /\ o.kind = "notok" =>
                 /\ searchError' = <<IF o.text = "" THEN "Search failed" ELSE o.text>>
                 /\ results' = results
            /\ o.kind = "throw" =>
                 /\ searchError' =
                      <<IF o.message = <<>> THEN "Search failed" ELSE o.message[1]>>
                 /\ results' = results
            /\ isSearching' = FALSE
            /\ Len(searches') = Len(searches) - 1]_vars

\* of two search calls one has delivered its two results and the other has
\* failed with the proxy's text; both have finished and the loading flag is
\* cleared
C7_Witness ==
  /\ searchError = <<"IGDB search failed">>
  /\ Len(results) = 2
  /\ ~isSearching
  /\ searches = <<>>
  /\ isSearchOpen

\* C13: in every state in which at least one search call is still awaiting
\* its response the loading flag isSearching is set.
C13_LoadingWhileAnySearchPending ==
  searches # <<>> => isSearching

----------------------------------------------------------------------------
(* Properties of the game search proxy *)

\* the request has a non-blank query and both credentials are configured
Serviceable(p) ==
  /\ p # <<>> /\ Trim(p[1]) # ""
  /\ env.TWITCH_CLIENT_ID # <<>> /\ env.TWITCH_CLIENT_ID # <<"">>
  /\ env.TWITCH_CLIENT_SECRET # <<>> /\ env.TWITCH_CLIENT_SECRET # <<"">>

\* C8: with credentials configured, a game request that starts while the
\* cache holds a token whose expiresAt is more than 60 seconds after the
\* current time goes on to the upstream search with exactly that token and
\* without a token exchange, and leaves the cache as it is; a request that
\* starts with no cached token, or with 60 seconds or less left, starts a
\* token exchange, and when the exchange succeeds the cache holds the new
\* token with expiresAt = the request's start time + expires_in * 1000 and the
\* request goes on with the new token.
C8_CacheReuseOrExchange ==
  /\ [][\A p \in QParams :
          (Serviceable(p) /\ GameGet(p)) =>
            /\ Len(reqs') = Len(reqs) + 1
            /\ cachedToken' = cachedToken
            /\ reqs'[Len(reqs')].now = clock
            /\ IF cachedToken # <<>> /\ cachedToken[1].expiresAt - clock > 60000
               THEN /\ reqs'[Len(reqs')].pc = "igdb"
                    /\ reqs'[Len(reqs')].token = <<cachedToken[1].token>>
                    /\ ~reqs'[Len(reqs')].exchanged
               ELSE /\ reqs'[Len(reqs')].pc = "token"
                    /\ reqs'[Len(reqs')].exchanged]_vars
  /\ [][\A k \in 1..Len(reqs) : \A o \in TokenOutcomes(reqs[k]) :
          (o.kind = "ok" /\ TokenResponse(k, o)) =>
            /\ cachedToken' = <<[token |-> o.access_token,
                                 expiresAt |-> reqs[k].now + o.expires_in * 1000]>>
            /\ reqs'[k].pc = "igdb"
            /\ reqs'[k].token = <<o.access_token>>]_vars

\* a request that started 30 seconds after the cached token was stored, with
\* more than 60 seconds left, is at its upstream search with the cached token
\* and without an exchange
C8_Witness ==
  /\ Len(reqs) = 1
  /\ reqs[1].pc = "igdb"
  /\ ~reqs[1].exchanged
  /\ cachedToken # <<>>
  /\ reqs[1].token = <<cachedToken[1].token>>
  /\ reqs[1].now = cachedToken[1].expiresAt - 90000
  /\ cachedToken[1].token.expires_in = 120

\* C9: a game request with a non-blank query that arrives while the client id
\* or the client secret is unset or empty ends at once in a thrown error,
\* answered with status 500 and no result list, having made neither a token
\* exchange nor an upstream search; no request is left in flight and the
\* cache is unchanged, also when it holds a token that is still valid.
C9_MissingCredentialsThrow ==
  [][\A p \in QParams :
       (/\ p # <<>> /\ Trim(p[1]) # ""
        /\ \/ env.TWITCH_CLIENT_ID = <<>> \/ env.TWITCH_CLIENT_ID = <<"">>
           \/ env.TWITCH_CLIENT_SECRET = <<>> \/ env.TWITCH_CLIENT_SECRET = <<"">>
        /\ GameGet(p)) =>
         /\ lastResponse' # <<>>
         /\ lastResponse'[1].status = 500
         /\ lastResponse'[1].thrown
         /\ lastResponse'[1].body =
              [error |-> "Missing TWITCH_CLIENT_ID or TWITCH_CLIENT_SECRET in .env.local"]
         /\ ~lastResponse'[1].exchanged
         /\ ~lastResponse'[1].searched
         /\ reqs' = reqs
         /\ cachedToken' = cachedToken]_vars

\* a request has just been answered 500 for an empty client secret while the
\* cache holds a token with more than 60 seconds left
C9_Witness ==
  /\ lastResponse # <<>>
  /\ lastResponse[1].status = 500
  /\ lastResponse[1].thrown
  /\ ~lastResponse[1].keysOk
  /\ env.TWITCH_CLIENT_SECRET = <<"">>
  /\ cachedToken # <<>>
  /\ cachedToken[1].expiresAt - clock > 60000
  /\ reqs = <<>>

\* the q parameter is absent, empty or made of blanks only
BlankParam(p) ==
  p = <<>> \/ \A i \in 1..Len(p[1]) : SubSeq(p[1], i, i) = " "

\* C11: a request to either endpoint whose q parameter is absent, empty or
\* only whitespace is answered at once with status 200 and { results: [] };
\* it leaves no outbound call in flight and none was made: no AniList call
\* for the anime endpoint, no token exchange and no IGDB call for the game
\* endpoint, whose token cache is unchanged.
C11_BlankQueryAnswersEmpty ==
  /\ [][\A p \in QParams :
          (BlankParam(p) /\ GameGet(p)) =>
            /\ lastResponse' # <<>>
            /\ lastResponse'[1].route = "game"
            /\ lastResponse'[1].status = 200
            /\ ~lastResponse'[1].thrown
            /\ lastResponse'[1].body = [results |-> <<>>]
            /\ ~lastResponse'[1].exchanged
            /\ ~lastResponse'[1].searched
            /\ reqs' = reqs
            /\ cachedToken' = cachedToken]_vars
  /\ [][\A p \in QParams :
          (BlankParam(p) /\ AnimeGet(p)) =>
            /\ lastResponse' # <<>>
            /\ lastResponse'[1].route = "anime"
            /\ lastResponse'[1].status = 200
            /\ ~lastResponse'[1].thrown
            /\ lastResponse'[1].body = [results |-> <<>>]
            /\ ~lastResponse'[1].searched
            /\ reqs' = reqs
            /\ cachedToken' = cachedToken]_vars

\* a blank game request has just been answered { results: [] } while the
\* client secret is empty and the cache holds a token; nothing is in flight
C11_Witness ==
  /\ lastResponse # <<>>
  /\ lastResponse[1].route = "game"
  /\ lastResponse[1].q = ""
  /\ lastResponse[1].status = 200
  /\ lastResponse[1].body = [results |-> <<>>]
  /\ env.TWITCH_CLIENT_SECRET = <<"">>
  /\ cachedToken # <<>>
  /\ reqs = <<>>

\* the instant an issued token really expires: its issue instant plus its
\* lifetime
RealExpiry(token) == token.iss + token.expires_in * 1000

\* C14: the expiresAt in the cache is never later than the real expiry of
\* the token stored with it, and a request that took its token from the
\* cache without an exchange holds a token that had more than 60 seconds of
\* real lifetime left when the request started, whatever the order in which
\* the exchange responses of concurrent requests arrive.
C14_CachedExpiryNeverLate ==
  /\ cachedToken # <<>> => cachedToken[1].expiresAt <= RealExpiry(cachedToken[1].token)
  /\ \A k \in 1..Len(reqs) :
       (reqs[k].pc = "igdb" /\ ~reqs[k].exchanged) =>
         RealExpiry(reqs[k].token[1]) - reqs[k].now > 60000

\* the cache entry was written by the exchange of a request started at 0
\* although a request started at 30000 has its exchange behind it: the
\* response of the earlier request arrived last and overwrote the entry
C14_Witness ==
  /\ cachedToken # <<>>
  /\ cachedToken[1].expiresAt = 120000
  /\ \E k \in 1..Len(reqs) :
       /\ reqs[k].pc = "igdb"
       /\ reqs[k].exchanged
       /\ reqs[k].now = 30000
       /\ reqs[k].token # <<cachedToken[1].token>>

----------------------------------------------------------------------------
(* Properties of the upload *)

\* C10: an upload of a file whose MIME type does not start with "image/"
\* changes no cell and not the selection, shows the rejection message and
\* starts no file read; an upload while no cell is selected changes nothing
\* and shows no message; so every file read in flight belongs to an image
\* file uploaded for a selected cell, and cells change only by a patch of
\* the selected cell or by the completion of such a read.
C10_RejectedUploadChangesNothing ==
  /\ [][\A f \in Files :
          (handleUploadImage(f) /\ selectedIndex # <<>>
             /\ ~(Len(f.type) >= 6 /\ SubSeq(f.type, 1, 6) = "image/")) =>
            /\ cells' = cells
            /\ selectedIndex' = selectedIndex
            /\ readers' = readers
            /\ alerted' = <<"Please upload an image file (png/jpg/webp/etc).">>]_vars
  /\ [][\A f \in Files :
          (handleUploadImage(f) /\ selectedIndex = <<>>) =>
            /\ cells' = cells
            /\ selectedIndex' = selectedIndex
            /\ readers' = readers
            /\ alerted' = <<>>]_vars
  /\ [](\A k \in 1..Len(readers) :
          /\ readers[k].sel # <<>>
          /\ Len(readers[k].file.type) >= 6
          /\ SubSeq(readers[k].file.type, 1, 6) = "image/")
  /\ [][cells' # cells =>
          \/ Len(readers') = Len(readers) - 1
          \/ selectedIndex # <<>> /\ readers' = readers /\ alerted' = <<>>]_vars

\* the rejection message has just been shown for cell 3, which keeps the
\* image of an earlier upload; no file read is in flight
C10_Witness ==
  /\ alerted = <<"Please upload an image file (png/jpg/webp/etc).">>
  /\ selectedIndex = <<3>>
  /\ cells[3].imageUrl = <<"data:image/png;base64,iVBOR">>
  /\ readers = <<>>

----------------------------------------------------------------------------
(* Properties of the export *)

\* C12: the export flag is set exactly while a rasterization is pending: an
\* export starts only while the flag is clear and sets it; when the
\* rasterization finishes the flag is cleared, with the download link
\* clicked on success and the failure message shown on failure; at most one
\* export is in flight; and, toPng settling, a set flag is eventually
\* cleared.
C12_ExportFlagTracksRasterization ==
  /\ [](isExporting <=> exports # <<>>)
  /\ [](Len(exports) <= 1)
  /\ [][ExportClick =>
          /\ ~isExporting /\ isExporting'
          /\ Len(exports') = Len(exports) + 1]_vars
  /\ [][\A k \in 1..Len(exports) : \A o \in PngOutcomes :
          ExportResolve(k, o) =>
            /\ isExporting /\ ~isExporting'
            /\ Len(exports') = Len(exports) - 1
            /\ o.kind = "ok" =>
                 /\ downloaded' # <<>>
                 /\ downloaded'[1].href = o.dataUrl
                 /\ alerted' = <<>>
            /\ o.kind = "throw" =>
                 /\ downloaded' = downloaded
                 /\ alerted' # <<>>
                 /\ SubSeq(alerted'[1], 1, 14) = "Export failed."]_vars
  /\ (isExporting ~> ~isExporting)

\* an export of the chart titled "A/B?" has failed after an earlier one was
\* downloaded as AB.png; the message is shown and the flag is clear again
C12_Witness ==
  /\ ~isExporting
  /\ exports = <<>>
  /\ alerted # <<>>
  /\ SubSeq(alerted[1], 1, 14) = "Export failed."
  /\ downloaded # <<>>
  /\ downloaded[1].download = "AB.png"

====
